---- MODULE Spec2Model ----
(***************************************************************************)
(* Model of lxf/container.go (lxe): the flat-config codec, the derivation  *)
(* of the container state, the foreground container operations against the *)
(* LXD engine, the volume reconciler (remountMissingVolumes), the monitor  *)
(* scheduler (containerMonitor) and the lifecycle event handler.           *)
(*                                                                         *)
(* Strings that the code inspects character by character (config keys) are *)
(* sequences of one-character strings; config values are TLA+ strings.     *)
(* A Go map is a function; the empty map is << >>.                         *)
(***************************************************************************)
EXTENDS Integers, Sequences, FiniteSets, TLC

VARIABLES
    engine,     \* the LXD server: the objects it has, by container name
    fg,         \* the foreground caller: idle, or inside StartContainer
    last,       \* what the last finished foreground call returned
    recon,      \* the remountMissingVolumes goroutines
    started,    \* containers for which a StartContainer has returned nil
    dsIn,       \* state derivation: the status code and the state marker
    dsOut,      \* state derivation: the derived state
    envIn,      \* environment codec: the variables of the container
    envCfg,     \* environment codec: the config makeContainerConfig made
    envOut,     \* environment codec: the variables extractEnvVars returned
    chan,       \* cntMonitorChan: the tasks buffered in the channel
    chanCap,    \* the capacity cntMonitorChan was made with
    mon,        \* containerMonitor, the dispatcher goroutine
    now,        \* the clock
    sweep,      \* the tasks in the channel when the current sweep began
    evals,      \* how often each task was evaluated in the current sweep
    dispatched, \* the remountMissingVolumes goroutines the dispatcher started
    adder,      \* a caller of AddMonitorTask
    nextTid,    \* the tasks made so far, plus one
    handler,    \* lifecycleEventHandler, the goroutine of the event listener
    handled,    \* the notifications the handler has returned from
    sandboxData,\* the mode data stored with each sandbox
    netLog,     \* the calls made to the network plugin
    crashed     \* the process has died of a panic

engineVars == <<engine, fg, last, recon, started>>
codecVars == <<dsIn, dsOut, envIn, envCfg, envOut>>
monitorVars == <<chan, chanCap, mon, now, sweep, evals, dispatched, adder, nextTid>>
eventVars == <<handler, handled, sandboxData, netLog, crashed>>
schedVars == <<monitorVars, eventVars>>
vars == <<engineVars, codecVars, schedVars>>

----------------------------------------------------------------------------
(* Bounds of the model.                                                    *)

\* number of disks a container can be created with
MaxDisks == 2
\* iterations of the reconciler loop that are explored
MaxRounds == 2
\* reconciler goroutines that can be alive at once
MaxRecon == 1
\* longest environment variable name
MaxNameLen == 2
\* most environment variables of a container
MaxEnvVars == 2
\* largest capacity of the monitor channel
MaxCap == 2
\* calls of AddMonitorTask by other code than the event handler
MaxTasks == 1
\* evaluations of tasks by the dispatcher that are explored
MaxEvals == 3
\* the clock stops at MaxTime
MaxTime == 1
\* notifications the event handler is given
MaxEvents == 2

----------------------------------------------------------------------------
(* Strings and maps.                                                       *)

Nil == "nil"

EmptyMap == << >>

Put(m, k, v) == [x \in DOMAIN m \cup {k} |-> IF x = k THEN v ELSE m[x]]

Delete(m, k) == [x \in DOMAIN m \ {k} |-> m[x]]

\* strings.HasPrefix
HasPrefix(s, p) == Len(s) >= Len(p) /\ SubSeq(s, 1, Len(p)) = p

Range(s) == {s[i] : i \in 1..Len(s)}

\* strings.TrimLeft(s, cutset): drops every leading character of s that occurs
\* in cutset
RECURSIVE TrimLeft(_, _)
TrimLeft(s, cutset) ==
    IF s # << >> /\ Head(s) \in Range(cutset)
    THEN TrimLeft(Tail(s), cutset)
    ELSE s

\* strconv.FormatBool
FormatBool(b) == IF b THEN "true" ELSE "false"

\* strconv.ParseBool
ParseBool(s) ==
    IF s \in {"1", "t", "T", "TRUE", "true", "True"} THEN [err |-> FALSE, val |-> TRUE]
    ELSE IF s \in {"0", "f", "F", "FALSE", "false", "False"} THEN [err |-> FALSE, val |-> FALSE]
    ELSE [err |-> TRUE, val |-> FALSE]

\* largest number the model formats (attempt counters, timestamps)
MaxInt == 3

\* strconv.FormatInt / strconv.FormatUint, base 10
FormatInt(n) == ToString(n)

\* strconv.ParseInt / strconv.ParseUint, base 10
ParseInt(s) ==
    IF \E n \in 0..MaxInt : ToString(n) = s
    THEN [err |-> FALSE, val |-> CHOOSE n \in 0..MaxInt : ToString(n) = s]
    ELSE [err |-> TRUE, val |-> 0]

----------------------------------------------------------------------------
(* Config keys.                                                            *)

Dot == <<".">>
user == <<"u","s","e","r">>

cfgLogPath == user \o Dot \o <<"l","o","g","_","p","a","t","h">>
cfgSecurityPrivileged ==
    <<"s","e","c","u","r","i","t","y">> \o Dot \o <<"p","r","i","v","i","l","e","g","e","d">>
volatile == <<"v","o","l","a","t","i","l","e">>
cfgVolatileBaseImage == volatile \o Dot \o <<"b","a","s","e","_","i","m","a","g","e">>
cfgStartedAt == user \o Dot \o <<"s","t","a","r","t","e","d","_","a","t">>
cfgCloudInitUserData == user \o Dot \o <<"u","s","e","r","-","d","a","t","a">>
cfgCloudInitMetaData == user \o Dot \o <<"m","e","t","a","-","d","a","t","a">>
cfgEnvironmentPrefix == <<"e","n","v","i","r","o","n","m","e","n","t">>
cfgAutoStartOnBoot == <<"b","o","o","t">> \o Dot \o <<"a","u","t","o","s","t","a","r","t">>

\* keys of the package that container.go uses but does not define
cfgSchema == user \o Dot \o <<"s","c","h","e","m","a">>
cfgIsCRI == user \o Dot \o <<"c","r","i">>
cfgState == user \o Dot \o <<"s","t","a","t","e">>
cfgMetaName == user \o Dot \o <<"m","e","t","a","d","a","t","a">> \o Dot \o <<"n","a","m","e">>
cfgMetaAttempt ==
    user \o Dot \o <<"m","e","t","a","d","a","t","a">> \o Dot \o <<"a","t","t","e","m","p","t">>
cfgCreatedAt == user \o Dot \o <<"c","r","e","a","t","e","d","_","a","t">>
cfgCloudInitNetworkConfig ==
    user \o Dot \o <<"n","e","t","w","o","r","k","-","c","o","n","f","i","g">>
cfgLabels == user \o Dot \o <<"l","a","b","e","l","s">>
cfgAnnotations == user \o Dot \o <<"a","n","n","o","t","a","t","i","o","n","s">>
SchemaVersionContainer == "0.4"
ErrorNotFound == "not found"

ContainerStateCreated == "created"
ContainerStateRunning == "running"
ContainerStateExited == "exited"
ContainerStateUnknown == "unknown"

\* containerConfigStore: the reserved exact keys and the reserved prefixes
ReservedKeys ==
    {cfgSchema, cfgLogPath, cfgIsCRI, cfgSecurityPrivileged, cfgState, cfgMetaName,
     cfgMetaAttempt, cfgCreatedAt, cfgStartedAt, cfgCloudInitUserData,
     cfgCloudInitMetaData, cfgCloudInitNetworkConfig}

ReservedPrefixes == {cfgLabels, cfgAnnotations, volatile}

\* ConfigStore.IsReserved: an exact reserved key, or a key under a reserved prefix
IsReserved(key) ==
    \/ key \in ReservedKeys
    \/ \E p \in ReservedPrefixes : HasPrefix(key, p \o Dot)

\* ConfigStore.UnreservedMap: the entries whose key is not reserved
UnreservedMap(config) ==
    [k \in {x \in DOMAIN config : ~IsReserved(x)} |-> config[k]]

\* ConfigStore.StripedPrefixMap: the entries under prefix, the prefix removed
StripedPrefixMap(config, prefix) ==
    LET p == prefix \o Dot
        ks == {k \in DOMAIN config : HasPrefix(k, p)}
    IN [n \in {SubSeq(k, Len(p) + 1, Len(k)) : k \in ks} |-> config[p \o n]]

----------------------------------------------------------------------------
(* LXD status codes (shared/api) that toContainer switches on.             *)

Stopped == 102
Running == 103
Stopping == 107
Aborting == 108

\* every status code the engine can report: the operation and container
\* statuses 100..112 and the final codes 200, 400, 401
StatusCodes == (100..112) \cup {200, 400, 401}

----------------------------------------------------------------------------
(* The codec: Container <-> flat config.                                   *)

\* the entries of m, each key put under prefix + "."
WithPrefix(m, prefix) ==
    LET p == prefix \o Dot
    IN [k \in {p \o n : n \in DOMAIN m} |-> m[SubSeq(k, Len(p) + 1, Len(k))]]

\* b's entries written over a's
Merge(a, b) ==
    [k \in DOMAIN a \cup DOMAIN b |-> IF k \in DOMAIN b THEN b[k] ELSE a[k]]

\* the cloud-init fields exist only when they are not empty
CloudInit(c) ==
    LET f == [k \in {cfgCloudInitMetaData, cfgCloudInitUserData, cfgCloudInitNetworkConfig} |->
                 IF k = cfgCloudInitMetaData THEN c.CloudInitMetaData
                 ELSE IF k = cfgCloudInitUserData THEN c.CloudInitUserData
                 ELSE c.CloudInitNetworkConfig]
    IN [k \in {x \in DOMAIN f : f[x] # ""} |-> f[k]]

\* the fixed keys makeContainerConfig writes for every container
FixedConfig(c) ==
    [k \in {cfgState, cfgCreatedAt, cfgStartedAt, cfgSecurityPrivileged, cfgLogPath,
            cfgIsCRI, cfgMetaName, cfgMetaAttempt, cfgVolatileBaseImage,
            cfgAutoStartOnBoot} |->
        CASE k = cfgState -> ContainerStateCreated
          [] k = cfgCreatedAt -> FormatInt(c.CreatedAt)
          [] k = cfgStartedAt -> FormatInt(c.StartedAt)
          [] k = cfgSecurityPrivileged -> FormatBool(c.Privileged)
          [] k = cfgLogPath -> c.LogPath
          [] k = cfgIsCRI -> FormatBool(TRUE)
          [] k = cfgMetaName -> c.Name
          [] k = cfgMetaAttempt -> FormatInt(c.Attempt)
          [] k = cfgVolatileBaseImage -> c.Image
          [] k = cfgAutoStartOnBoot -> FormatBool(TRUE)]

\* the environment variables, each under "environment." + name
EncodeEnv(env) == WithPrefix(env, cfgEnvironmentPrefix)

\* makeContainerConfig: later writes win
makeContainerConfig(c) ==
    Merge(Merge(Merge(Merge(WithPrefix(c.Labels, cfgLabels),
                            WithPrefix(c.Annotations, cfgAnnotations)),
                      FixedConfig(c)),
                EncodeEnv(c.EnvironmentVars)),
          CloudInit(c))

\* saveContainer, the config it sends: makeContainerConfig, then every
\* passthrough key that is not reserved, then the schema version
SaveConfig(c) ==
    Put(Merge(makeContainerConfig(c),
              [k \in {x \in DOMAIN c.Config : ~IsReserved(x)} |-> c.Config[k]]),
        cfgSchema, SchemaVersionContainer)

\* the name extractEnvVars gives the variable stored under key k
EnvVarName(k) == TrimLeft(k, cfgEnvironmentPrefix \o Dot)

\* extractEnvVars: every map it can return. Two keys that are trimmed to one
\* name overwrite each other in the order the Go map is ranged over, which
\* is not fixed, so either value can be the result.
extractEnvVars(config) ==
    LET ks == {k \in DOMAIN config : HasPrefix(k, cfgEnvironmentPrefix \o Dot)}
        names == {EnvVarName(k) : k \in ks}
    IN {f \in [names -> {config[k] : k \in ks}] :
           \A n \in names : \E k \in ks : EnvVarName(k) = n /\ config[k] = f[n]}

\* deriveState with the value of the marker not looked at
deriveStateAnyMarker(statusCode, config) ==
    IF statusCode = Running THEN ContainerStateRunning
    ELSE IF statusCode \in {Stopped, Aborting, Stopping}
    THEN IF cfgState \in DOMAIN config
         THEN ContainerStateCreated
         ELSE ContainerStateExited
    ELSE ContainerStateUnknown

\* toContainer, "get status and map it"
deriveState(statusCode, config) ==
    IF statusCode = Running THEN ContainerStateRunning
    ELSE IF statusCode \in {Stopped, Aborting, Stopping}
    THEN IF cfgState \in DOMAIN config /\ config[cfgState] = ContainerStateCreated
         THEN ContainerStateCreated
         ELSE ContainerStateExited
    ELSE ContainerStateUnknown

----------------------------------------------------------------------------
(* The engine and the containers stored in it.                             *)

NetworkHost == "host"
NetworkCNI == "cni"

\* the sandboxes (profiles) of the engine and their network mode
Sandboxes == {"sbHost", "sbCNI"}
SandboxMode(s) == IF s = "sbHost" THEN NetworkHost ELSE NetworkCNI

AllDisks == 1..MaxDisks

\* the disks of a set as a slice, in ascending order
RECURSIVE SetToSeq(_)
SetToSeq(S) ==
    IF S = {} THEN << >>
    ELSE LET m == CHOOSE x \in S : \A y \in S : x <= y
         IN <<m>> \o SetToSeq(S \ {m})

\* Container.CreateID: a function of the container name and the sandbox
CreateID(c) == <<c.Name, c.Sandbox>>

\* an engine object that was not created through this package
RawID == <<"raw", "none">>
RawObject ==
    [Config |-> EmptyMap, Devices |-> {}, Profiles |-> <<"default">>,
     StatusCode |-> Stopped]

ManagedIDs == {<<"a", s>> : s \in Sandboxes}
EngineIDs == ManagedIDs \cup {RawID}

\* the clock reading of every time.Now() of this specification
Now == 1

\* the value of every passthrough config entry a caller supplies
PassVal == "caller"

\* the passthrough config maps a caller supplies: empty, or one entry
PassKeys ==
    {cfgState, cfgAutoStartOnBoot, cfgEnvironmentPrefix \o Dot \o <<"p">>,
     <<"r","a","w",".","l","x","c">>}
PassMaps == {EmptyMap} \cup {[k \in {key} |-> PassVal] : key \in PassKeys}

\* a Go map read: the zero value for a missing key
Lookup(m, k) == IF k \in DOMAIN m THEN m[k] ELSE ""

\* toContainer: the lxf container of an engine object, or an error
toContainer(ct, id) ==
    LET attempts == ParseInt(Lookup(ct.Config, cfgMetaAttempt))
        privileged == ParseBool(Lookup(ct.Config, cfgSecurityPrivileged))
        createdAt == ParseInt(Lookup(ct.Config, cfgCreatedAt))
        startedAt == ParseInt(Lookup(ct.Config, cfgStartedAt))
    IN IF Lookup(ct.Config, cfgSchema) # SchemaVersionContainer
       THEN [err |-> "schema", c |-> Nil]
       ELSE IF attempts.err \/ privileged.err \/ createdAt.err \/ startedAt.err
       THEN [err |-> "syntax", c |-> Nil]
       ELSE IF Len(ct.Profiles) = 0
       THEN [err |-> "profile", c |-> Nil]
       ELSE [err |-> Nil,
             c |-> [ID |-> id,
                    Name |-> Lookup(ct.Config, cfgMetaName),
                    Attempt |-> attempts.val,
                    LogPath |-> Lookup(ct.Config, cfgLogPath),
                    Image |-> Lookup(ct.Config, cfgVolatileBaseImage),
                    Annotations |-> StripedPrefixMap(ct.Config, cfgAnnotations),
                    Labels |-> StripedPrefixMap(ct.Config, cfgLabels),
                    Config |-> UnreservedMap(ct.Config),
                    CreatedAt |-> createdAt.val,
                    StartedAt |-> startedAt.val,
                    EnvironmentVars |-> CHOOSE f \in extractEnvVars(ct.Config) : TRUE,
                    Privileged |-> privileged.val,
                    CloudInitUserData |-> Lookup(ct.Config, cfgCloudInitUserData),
                    CloudInitMetaData |-> Lookup(ct.Config, cfgCloudInitMetaData),
                    CloudInitNetworkConfig |-> Lookup(ct.Config, cfgCloudInitNetworkConfig),
                    State |-> deriveState(ct.StatusCode, ct.Config),
                    Disks |-> SetToSeq(ct.Devices),
                    Sandbox |-> ct.Profiles[1]]]

\* GetContainer: engineFails is the outcome of the engine calls it makes
GetContainer(id, engineFails) ==
    IF engineFails \/ id \notin DOMAIN engine
    THEN [err |-> "engine", c |-> Nil]
    ELSE LET isCRIContainer == ParseBool(Lookup(engine[id].Config, cfgIsCRI))
         IN IF isCRIContainer.err THEN [err |-> "syntax", c |-> Nil]
            ELSE IF ~isCRIContainer.val THEN [err |-> ErrorNotFound, c |-> Nil]
            ELSE toContainer(engine[id], id)

\* the engine object saveContainer sends for container c
ContainerPut(c, status) ==
    [Config |-> SaveConfig(c), Devices |-> Range(c.Disks),
     Profiles |-> <<c.Sandbox, "default">>, StatusCode |-> status]

\* saveContainer: image is the outcome of the image lookup, engineOK that of
\* the engine write. The result: the error, the engine calls made, the
\* engine afterwards.
saveContainer(c, image, engineOK) ==
    IF image # "found"
    THEN [err |-> "image", calls |-> {"image"}, engine |-> engine]
    ELSE IF c.ID = ""
    THEN LET id == CreateID(c)
         IN IF engineOK /\ id \notin DOMAIN engine
            THEN [err |-> Nil, calls |-> {"image", "create"},
                  engine |-> Put(engine, id, ContainerPut(c, Stopped))]
            ELSE [err |-> "engine", calls |-> {"image", "create"}, engine |-> engine]
    ELSE IF engineOK /\ c.ID \in DOMAIN engine
         THEN [err |-> Nil, calls |-> {"image", "update"},
               engine |-> [engine EXCEPT
                              ![c.ID] = ContainerPut(c, engine[c.ID].StatusCode)]]
         ELSE [err |-> "engine", calls |-> {"image", "update"}, engine |-> engine]

ImageOutcomes == {"found", "notfound"}

\* the containers a caller asks CreateContainer to create: without disks or
\* with every disk
NewContainers ==
    [ID : {""}, Name : {"a"}, Attempt : {0}, LogPath : {""}, Image : {"img"},
     Annotations : {EmptyMap}, Labels : {EmptyMap}, Config : PassMaps,
     CreatedAt : {0}, StartedAt : {0}, EnvironmentVars : {EmptyMap},
     Privileged : BOOLEAN, CloudInitUserData : {""}, CloudInitMetaData : {""},
     CloudInitNetworkConfig : {""}, State : {""},
     Disks : {<< >>, SetToSeq(AllDisks)},
     Sandbox : Sandboxes \cup {Nil}]

\* values of the fields that hold no container name, engine object or container
NoID == <<"", "">>
NoObject == [Config |-> EmptyMap]
NoContainer == [ID |-> NoID]

FgIdle == [pc |-> "idle", id |-> NoID, ct |-> NoObject]

\* A goroutine of remountMissingVolumes. confirmed is the set of disks the
\* last probe found present, exit the reason the goroutine returned for.
ReconIdle ==
    [pc |-> "idle", id |-> NoID, allDisks |-> << >>, mountedDisks |-> << >>,
     cntInfo |-> NoContainer, rounds |-> 0, confirmed |-> {}, exit |-> Nil]

Recons == 1..MaxRecon

FreeRecon(r) ==
    /\ recon[r].pc \in {"idle", "done"}
    /\ \A q \in Recons : q < r => recon[q].pc \notin {"idle", "done"}

\* go l.remountMissingVolumes(cntInfo): allDisks and mountedDisks are set
\* before the loop
Spawn(r, cntInfo) ==
    [ReconIdle EXCEPT !.pc = "reload", !.id = cntInfo.ID, !.allDisks = cntInfo.Disks]

EngineInit ==
    /\ engine = [id \in {RawID} |-> RawObject]
    /\ fg = FgIdle
    /\ last = [op |-> Nil, id |-> NoID, err |-> Nil, calls |-> {}]
    /\ recon = [r \in Recons |-> ReconIdle]
    /\ started = {}

\* no pure function has been applied
CodecIdle ==
    /\ dsIn = [statusCode |-> 0, has |-> FALSE, value |-> ""]
    /\ dsOut = Nil
    /\ envIn = EmptyMap
    /\ envCfg = EmptyMap
    /\ envOut = [done |-> FALSE, vars |-> EmptyMap]

\* CreateContainer without the check of the host network mode
CreateContainerUnchecked(c, image, engineOK) ==
    /\ fg.pc = "idle"
    /\ IF c.Sandbox = Nil
       THEN /\ last' = [op |-> "create", id |-> NoID, err |-> "validation", calls |-> {}]
            /\ engine' = engine
       ELSE LET res == saveContainer([c EXCEPT !.CreatedAt = Now], image, engineOK)
            IN /\ last' = [op |-> "create", id |-> CreateID(c), err |-> res.err,
                           calls |-> res.calls]
               /\ engine' = res.engine
    /\ UNCHANGED <<fg, recon, started, codecVars, schedVars>>

\* CreateContainer(c)
CreateContainer(c, image, engineOK) ==
    /\ fg.pc = "idle"
    /\ IF c.Sandbox = Nil
       THEN /\ last' = [op |-> "create", id |-> NoID, err |-> "validation", calls |-> {}]
            /\ engine' = engine
       ELSE IF SandboxMode(c.Sandbox) = NetworkHost /\ ~c.Privileged
       THEN /\ last' = [op |-> "create", id |-> NoID, err |-> "validation", calls |-> {}]
            /\ engine' = engine
       ELSE LET res == saveContainer([c EXCEPT !.CreatedAt = Now], image, engineOK)
            IN /\ last' = [op |-> "create", id |-> CreateID(c), err |-> res.err,
                           calls |-> res.calls]
               /\ engine' = res.engine
    /\ UNCHANGED <<fg, recon, started, codecVars, schedVars>>

\* UpdateContainer(c)
UpdateContainer(c, image, engineOK) ==
    /\ fg.pc = "idle"
    /\ IF c.Sandbox = Nil
       THEN /\ last' = [op |-> "update", id |-> c.ID, err |-> "validation", calls |-> {}]
            /\ engine' = engine
       ELSE LET res == saveContainer(c, image, engineOK)
            IN /\ last' = [op |-> "update", id |-> c.ID, err |-> res.err,
                           calls |-> res.calls]
               /\ engine' = res.engine
    /\ UNCHANGED <<fg, recon, started, codecVars, schedVars>>

\* the containers a caller passes to UpdateContainer: one it has read with
\* GetContainer, with another privileged flag, passthrough config or no sandbox
UpdatedContainers ==
    UNION {LET res == GetContainer(id, FALSE)
           IN IF res.err # Nil THEN {}
              ELSE {[res.c EXCEPT !.Privileged = p, !.Config = m, !.Sandbox = s] :
                       p \in BOOLEAN, m \in PassMaps \cup {res.c.Config},
                       s \in {res.c.Sandbox, Nil}}
           : id \in ManagedIDs}

Return(op, id, err, calls) ==
    /\ last' = [op |-> op, id |-> id, err |-> err, calls |-> calls]
    /\ fg' = FgIdle

\* StartContainer(id), lxo.StartContainer: the engine starts a stopped
\* container, and refuses any other
StartContainer(id, engineOK) ==
    /\ fg.pc = "idle"
    /\ IF engineOK /\ id \in DOMAIN engine /\ engine[id].StatusCode = Stopped
       THEN /\ engine' = [engine EXCEPT ![id].StatusCode = Running]
            /\ fg' = [pc |-> "started", id |-> id, ct |-> NoObject]
            /\ last' = last
       ELSE /\ engine' = engine
            /\ Return("start", id, "engine", {"start"})
    /\ UNCHANGED <<recon, started, codecVars, schedVars>>

\* StartContainer, l.server.GetContainer: the raw object, from which the
\* state marker is removed and in which the start time is set
StartRead(engineOK) ==
    /\ fg.pc = "started"
    /\ IF engineOK /\ fg.id \in DOMAIN engine
       THEN /\ fg' = [fg EXCEPT !.pc = "read",
                         !.ct = [engine[fg.id] EXCEPT
                                    !.Config = Put(Delete(@, cfgState), cfgStartedAt,
                                                   FormatInt(Now))]]
            /\ last' = last
       ELSE Return("start", fg.id, "engine", {"start", "get"})
    /\ UNCHANGED <<engine, recon, started, codecVars, schedVars>>

\* StartContainer, l.GetContainer and go l.remountMissingVolumes(c)
StartSpawn(r, engineOK) ==
    /\ fg.pc = "read"
    /\ LET res == GetContainer(fg.id, ~engineOK)
       IN IF res.err # Nil
          THEN /\ Return("start", fg.id, res.err, {"start", "get"})
               /\ recon' = recon
          ELSE /\ FreeRecon(r)
               /\ recon' = [recon EXCEPT ![r] = Spawn(r, res.c)]
               /\ fg' = [fg EXCEPT !.pc = "spawned"]
               /\ last' = last
    /\ UNCHANGED <<engine, started, codecVars, schedVars>>

\* StartContainer, lxo.UpdateContainer(l.server, id, ct.Writable())
StartUpdate(engineOK) ==
    /\ fg.pc = "spawned"
    /\ IF engineOK /\ fg.id \in DOMAIN engine
       THEN /\ engine' = [engine EXCEPT
                             ![fg.id] = [fg.ct EXCEPT !.StatusCode = engine[fg.id].StatusCode]]
            /\ started' = started \cup {fg.id}
            /\ Return("start", fg.id, Nil, {"start", "get", "update"})
       ELSE /\ engine' = engine
            /\ started' = started
            /\ Return("start", fg.id, "engine", {"start", "get", "update"})
    /\ UNCHANGED <<recon, codecVars, schedVars>>

\* StopContainer(id)
StopContainer(id) ==
    /\ fg.pc = "idle"
    /\ id \in DOMAIN engine
    /\ engine[id].StatusCode = Running
    /\ engine' = [engine EXCEPT ![id].StatusCode = Stopped]
    /\ last' = [op |-> "stop", id |-> id, err |-> Nil, calls |-> {"stop"}]
    /\ UNCHANGED <<fg, recon, started, codecVars, schedVars>>

\* DeleteContainer(id)
DeleteContainer(id) ==
    /\ fg.pc = "idle"
    /\ id \in DOMAIN engine
    /\ engine[id].StatusCode = Stopped
    /\ engine' = Delete(engine, id)
    /\ started' = started \ {id}
    /\ last' = [op |-> "delete", id |-> id, err |-> Nil, calls |-> {"delete"}]
    /\ UNCHANGED <<fg, recon, codecVars, schedVars>>

\* a caller's GetContainer(id)
GetContainerCall(id, engineOK) ==
    /\ fg.pc = "idle"
    /\ last' = [op |-> "get", id |-> id, err |-> GetContainer(id, ~engineOK).err,
                calls |-> {"get"}]
    /\ UNCHANGED <<engine, fg, recon, started, codecVars, schedVars>>

\* the process of a running container ends by itself
ContainerExits(id) ==
    /\ id \in DOMAIN engine
    /\ engine[id].StatusCode = Running
    /\ engine' = [engine EXCEPT ![id].StatusCode = Stopped]
    /\ UNCHANGED <<fg, last, recon, started, codecVars, schedVars>>

----------------------------------------------------------------------------
(* remountMissingVolumes, one goroutine per call.                          *)

Exit(r, why) ==
    recon' = [recon EXCEPT ![r].pc = "done", ![r].exit = why, ![r].cntInfo = NoContainer,
                           ![r].mountedDisks = << >>, ![r].rounds = 0,
                           ![r].confirmed = {}]

\* the head of the loop: reload the container, stop on nil or a stale state
ReconReload(r, engineOK) ==
    /\ recon[r].pc = "reload"
    /\ recon[r].rounds < MaxRounds
    /\ LET res == GetContainer(recon[r].id, ~engineOK)
       IN IF res.err # Nil THEN Exit(r, "nil")
          ELSE IF res.c.State \in {ContainerStateExited, ContainerStateUnknown}
          THEN Exit(r, "stale")
          ELSE recon' = [recon EXCEPT ![r].pc = "probe", ![r].cntInfo = res.c]
    /\ UNCHANGED <<engine, fg, last, started, codecVars, schedVars>>

\* the probes of cntInfo.Disks: GetContainerFile succeeds for the disks in
\* present, which are appended to mountedDisks, and then the lengths are
\* compared
ReconProbe(r, present) ==
    /\ recon[r].pc = "probe"
    /\ present \subseteq Range(recon[r].cntInfo.Disks)
    /\ LET mountedDisks == recon[r].mountedDisks \o SetToSeq(present)
       IN IF Len(mountedDisks) = Len(recon[r].allDisks)
          THEN recon' = [recon EXCEPT ![r].pc = "done", ![r].exit = "success",
                                      ![r].confirmed = present, ![r].cntInfo = NoContainer,
                                      ![r].mountedDisks = << >>, ![r].rounds = 0]
          ELSE recon' = [recon EXCEPT ![r].pc = "sleep", ![r].confirmed = present,
                                      ![r].mountedDisks = mountedDisks]
    /\ UNCHANGED <<engine, fg, last, started, codecVars, schedVars>>

\* time.Sleep(time.Second * 1)
ReconSleep(r) ==
    /\ recon[r].pc = "sleep"
    /\ recon' = [recon EXCEPT ![r].pc = "update1"]
    /\ UNCHANGED <<engine, fg, last, started, codecVars, schedVars>>

\* cntInfo.Disks = mountedDisks; l.UpdateContainer(cntInfo)
ReconUpdateMounted(r, image, engineOK) ==
    /\ recon[r].pc = "update1"
    /\ LET c == [recon[r].cntInfo EXCEPT !.Disks = recon[r].mountedDisks]
       IN /\ engine' = saveContainer(c, image, engineOK).engine
          /\ recon' = [recon EXCEPT ![r].pc = "update2", ![r].cntInfo = c]
    /\ UNCHANGED <<fg, last, started, codecVars, schedVars>>

\* cntInfo.Disks = allDisks; l.UpdateContainer(cntInfo); next iteration
ReconUpdateAll(r, image, engineOK) ==
    /\ recon[r].pc = "update2"
    /\ LET c == [recon[r].cntInfo EXCEPT !.Disks = recon[r].allDisks]
       IN /\ engine' = saveContainer(c, image, engineOK).engine
          /\ recon' = [recon EXCEPT ![r].pc = "reload", ![r].cntInfo = NoContainer,
                                    ![r].rounds = @ + 1]
    /\ UNCHANGED <<fg, last, started, codecVars, schedVars>>

\* The callers of Spec create containers of the CNI sandbox with every disk
\* and no passthrough config, and update a container with what they have read.
MainNewContainers ==
    {c \in NewContainers :
        c.Sandbox = "sbCNI" /\ ~c.Privileged /\ c.Config = EmptyMap
        /\ Range(c.Disks) = AllDisks}

MainUpdatedContainers ==
    UNION {LET res == GetContainer(id, FALSE)
           IN IF res.err # Nil THEN {} ELSE {res.c}
           : id \in ManagedIDs}

Next ==
    \/ \E c \in MainNewContainers, image \in ImageOutcomes, engineOK \in BOOLEAN :
          CreateContainer(c, image, engineOK)
    \/ \E c \in MainUpdatedContainers, image \in ImageOutcomes, engineOK \in BOOLEAN :
          UpdateContainer(c, image, engineOK)
    \/ \E id \in ManagedIDs, engineOK \in BOOLEAN : StartContainer(id, engineOK)
    \/ \E engineOK \in BOOLEAN : StartRead(engineOK)
    \/ \E r \in Recons, engineOK \in BOOLEAN : StartSpawn(r, engineOK)
    \/ \E engineOK \in BOOLEAN : StartUpdate(engineOK)
    \/ \E id \in ManagedIDs : StopContainer(id)
    \/ \E id \in ManagedIDs : DeleteContainer(id)
    \/ \E id \in ManagedIDs : ContainerExits(id)
    \/ \E r \in Recons, engineOK \in BOOLEAN : ReconReload(r, engineOK)
    \/ \E r \in Recons, present \in SUBSET AllDisks : ReconProbe(r, present)
    \/ \E r \in Recons : ReconSleep(r)
    \/ \E r \in Recons, image \in ImageOutcomes, engineOK \in BOOLEAN :
          ReconUpdateMounted(r, image, engineOK)
    \/ \E r \in Recons, image \in ImageOutcomes, engineOK \in BOOLEAN :
          ReconUpdateAll(r, image, engineOK)

NextSave ==
    \/ \E c \in NewContainers, image \in ImageOutcomes, engineOK \in BOOLEAN :
          CreateContainer(c, image, engineOK)
    \/ \E c \in UpdatedContainers, image \in ImageOutcomes, engineOK \in BOOLEAN :
          UpdateContainer(c, image, engineOK)
    \/ \E id \in EngineIDs, engineOK \in BOOLEAN : GetContainerCall(id, engineOK)
    \/ \E id \in ManagedIDs : DeleteContainer(id)

----------------------------------------------------------------------------
(* The monitor: AddMonitorTask and containerMonitor.                       *)

\* the interval of a task that is not due at once
MaxInterval == 1

\* the zero time.Time, the lastCheck of a new task: so long ago that the task
\* is due whatever its interval
ZeroTime == 0 - (MaxInterval + 1)

\* ContainerMonitorChan, a task in the channel. container is the name of the
\* container it points to (NoID for a nil pointer), tid tells the tasks apart:
\* 1..MaxTasks are those of other callers, the later ones those of the event
\* handler, one for each notification.
NoTask ==
    [tid |-> 0, container |-> NoID, task |-> "", intervalSec |-> 0,
     once |-> FALSE, lastCheck |-> ZeroTime]

Task(tid, container, task, interval, once) ==
    [tid |-> tid, container |-> container, task |-> task, intervalSec |-> interval,
     once |-> once, lastCheck |-> ZeroTime]

Tids == 1..(MaxTasks + MaxEvents)

\* a send on cntMonitorChan can proceed: there is room in the buffer, or the
\* dispatcher is waiting to receive
CanSend == Len(chan) < chanCap \/ (chan = << >> /\ mon.pc = "recv")

\* cntMonitorChan <- t, by a goroutine other than the dispatcher
Send(t) ==
    IF chan = << >> /\ mon.pc = "recv"
    THEN /\ mon' = [pc |-> "eval", item |-> t]
         /\ chan' = chan
    ELSE /\ chan' = Append(chan, t)
         /\ mon' = mon

\* some code calls AddMonitorTask(c, task, interval, once)
AddMonitorTask(c, task, interval, once) ==
    /\ ~crashed
    /\ adder.pc = "idle"
    /\ nextTid <= MaxTasks
    /\ adder' = [pc |-> "send", item |-> Task(nextTid, c, task, interval, once)]
    /\ nextTid' = nextTid + 1
    /\ UNCHANGED <<chan, chanCap, mon, now, sweep, evals, dispatched>>
    /\ UNCHANGED <<eventVars, engineVars, codecVars>>

\* AddMonitorTask, the send
AddMonitorTaskSend ==
    /\ ~crashed
    /\ adder.pc = "send"
    /\ CanSend
    /\ Send(adder.item)
    /\ adder' = [pc |-> "idle", item |-> NoTask]
    /\ UNCHANGED <<chanCap, now, sweep, evals, dispatched, nextTid>>
    /\ UNCHANGED <<eventVars, engineVars, codecVars>>

\* containerMonitor, case <-tick: a sweep begins
MonitorTick ==
    /\ ~crashed
    /\ mon.pc = "select"
    /\ mon' = [mon EXCEPT !.pc = "recv"]
    /\ sweep' = {chan[i].tid : i \in 1..Len(chan)}
    /\ evals' = [t \in Tids |-> 0]
    /\ UNCHANGED <<chan, chanCap, now, dispatched, adder, nextTid>>
    /\ UNCHANGED <<eventVars, engineVars, codecVars>>

\* containerMonitor, for i := range cntMonitorChan: the next task
MonitorReceive ==
    /\ ~crashed
    /\ mon.pc = "recv"
    /\ chan # << >>
    /\ mon' = [pc |-> "eval", item |-> Head(chan)]
    /\ chan' = Tail(chan)
    /\ UNCHANGED <<chanCap, now, sweep, evals, dispatched, adder, nextTid>>
    /\ UNCHANGED <<eventVars, engineVars, codecVars>>

\* the due test with the interval left out
DueNoInterval(i) == i.lastCheck - now <= 0

\* i.lastCheck.Add(i.intervalSec).Sub(time.Now()) <= 0
Due(i) == (i.lastCheck + i.intervalSec) - now <= 0

\* containerMonitor, the body of the loop up to the requeue: a due "volumes"
\* task starts remountMissingVolumes, which panics on a nil container
MonitorEvaluate ==
    /\ ~crashed
    /\ mon.pc = "eval"
    /\ Len(dispatched) < MaxEvals
    /\ \A t \in Tids : evals[t] < MaxEvals
    /\ LET i == mon.item
           start == Due(i) /\ i.task = "volumes"
           checked == IF start THEN [i EXCEPT !.lastCheck = now] ELSE i
       IN /\ evals' = [evals EXCEPT ![i.tid] = @ + 1]
          /\ dispatched' = IF start
                           THEN Append(dispatched, [tid |-> i.tid, at |-> now, once |-> i.once])
                           ELSE dispatched
          /\ crashed' = (start /\ i.container = NoID)
          /\ mon' = IF i.once THEN [pc |-> "recv", item |-> NoTask]
                    ELSE [pc |-> "requeue", item |-> checked]
    /\ UNCHANGED <<chan, chanCap, now, sweep, adder, nextTid>>
    /\ UNCHANGED <<handler, handled, sandboxData, netLog, engineVars, codecVars>>

\* containerMonitor, cntMonitorChan <- i: the dispatcher is the only receiver,
\* so its own send needs room in the buffer
MonitorRequeue ==
    /\ ~crashed
    /\ mon.pc = "requeue"
    /\ Len(chan) < chanCap
    /\ chan' = Append(chan, mon.item)
    /\ mon' = [pc |-> "recv", item |-> NoTask]
    /\ UNCHANGED <<chanCap, now, sweep, evals, dispatched, adder, nextTid>>
    /\ UNCHANGED <<eventVars, engineVars, codecVars>>

\* time passes
ClockTick ==
    /\ ~crashed
    /\ now < MaxTime
    /\ now' = now + 1
    /\ UNCHANGED <<chan, chanCap, mon, sweep, evals, dispatched, adder, nextTid>>
    /\ UNCHANGED <<eventVars, engineVars, codecVars>>

----------------------------------------------------------------------------
(* The lifecycle event handler.                                            *)

\* the notifications of the engine: message and metadata tell whether the
\* JSON decodes
Started(source) ==
    [message |-> "ok", type |-> "lifecycle", metadata |-> "ok",
     action |-> "container-started", source |-> source]

\* a start of each engine object, and for a container every other kind
Notifications ==
    {Started(id) : id \in EngineIDs}
    \cup {[Started(<<"a", "sbCNI">>) EXCEPT !.message = "bad"],
          [Started(<<"a", "sbCNI">>) EXCEPT !.type = "logging"],
          [Started(<<"a", "sbCNI">>) EXCEPT !.metadata = "bad"],
          [Started(<<"a", "sbCNI">>) EXCEPT !.action = "container-stopped"]}

\* the opaque results of network.AttachCNIInterface; a failed call returns
\* the empty result
AttachResults == {"r1", "r2"}
AttachFailed == ""

\* lifecycleEventHandler between two notifications. cnt is the container it
\* has loaded (NoContainer for nil), modeData the ModeData of cnt.Sandbox.
HandlerIdle == [pc |-> "idle", id |-> NoID, cnt |-> NoContainer, modeData |-> EmptyMap]

\* lifecycleEventHandler(message), up to the call of GetContainer: every
\* notification but a decodable lifecycle "container-started" returns here
LifecycleEvent(n) ==
    /\ ~crashed
    /\ handler.pc = "idle"
    /\ handled < MaxEvents
    /\ IF n.message = "ok" /\ n.type = "lifecycle" /\ n.metadata = "ok"
          /\ n.action = "container-started"
       THEN /\ handler' = [HandlerIdle EXCEPT !.pc = "load", !.id = n.source]
            /\ handled' = handled
       ELSE /\ handler' = HandlerIdle
            /\ handled' = handled + 1
    /\ UNCHANGED <<sandboxData, netLog, crashed, monitorVars, engineVars, codecVars>>

\* cnt, err := l.GetContainer(containerID): the error is logged, cnt is nil
HandlerLoad(engineOK) ==
    /\ ~crashed
    /\ handler.pc = "load"
    /\ LET res == GetContainer(handler.id, ~engineOK)
       IN handler' =
            IF res.err # Nil
            THEN [handler EXCEPT !.pc = "enqueue"]
            ELSE [handler EXCEPT !.pc = "enqueue", !.cnt = res.c,
                                 !.modeData = sandboxData[res.c.Sandbox]]
    /\ UNCHANGED <<handled, sandboxData, netLog, crashed, monitorVars, engineVars,
                   codecVars>>

\* l.AddMonitorTask(cnt, "volumes", 0, true), then the switch on
\* cnt.Sandbox.NetworkConfig.Mode: a nil cnt panics
HandlerEnqueue ==
    /\ ~crashed
    /\ handler.pc = "enqueue"
    /\ CanSend
    /\ Send(Task(MaxTasks + handled + 1, handler.cnt.ID, "volumes", 0, TRUE))
    /\ IF handler.cnt = NoContainer
       THEN /\ handler' = [handler EXCEPT !.pc = "panic"]
            /\ crashed' = TRUE
            /\ handled' = handled
       ELSE IF SandboxMode(handler.cnt.Sandbox) = NetworkCNI
       THEN /\ handler' = [handler EXCEPT !.pc = "network"]
            /\ crashed' = crashed
            /\ handled' = handled
       ELSE /\ handler' = HandlerIdle
            /\ crashed' = crashed
            /\ handled' = handled + 1
    /\ UNCHANGED <<chanCap, now, sweep, evals, dispatched, adder, nextTid>>
    /\ UNCHANGED <<sandboxData, netLog, engineVars, codecVars>>

\* case NetworkCNI: AttachCNIInterface when the ModeData is empty, and the
\* result, failed or not, goes under "result"; else ReattachCNIInterface
\* with ModeData["result"], its error logged
HandlerNetwork(result) ==
    /\ ~crashed
    /\ handler.pc = "network"
    /\ IF Cardinality(DOMAIN handler.modeData) = 0
       THEN /\ netLog' = Append(netLog, [op |-> "Attach", sandbox |-> handler.cnt.Sandbox,
                                         result |-> result])
            /\ handler' = [handler EXCEPT !.pc = "save",
                                          !.modeData = Put(@, "result", result)]
            /\ handled' = handled
       ELSE /\ netLog' = Append(netLog, [op |-> "Reattach", sandbox |-> handler.cnt.Sandbox,
                                         result |-> Lookup(handler.modeData, "result")])
            /\ handler' = HandlerIdle
            /\ handled' = handled + 1
    /\ UNCHANGED <<sandboxData, crashed, monitorVars, engineVars, codecVars>>

\* err = l.saveSandbox(cnt.Sandbox): the error is logged
HandlerSave(engineOK) ==
    /\ ~crashed
    /\ handler.pc = "save"
    /\ sandboxData' = IF engineOK
                      THEN [sandboxData EXCEPT ![handler.cnt.Sandbox] = handler.modeData]
                      ELSE sandboxData
    /\ handler' = HandlerIdle
    /\ handled' = handled + 1
    /\ UNCHANGED <<netLog, crashed, monitorVars, engineVars, codecVars>>

----------------------------------------------------------------------------
(* The monitor and the event handler over an engine with started           *)
(* containers (SpecSched).                                                 *)

SchedIdle ==
    /\ chan = << >>
    /\ chanCap = 0
    /\ mon = [pc |-> "select", item |-> NoTask]
    /\ now = 0
    /\ sweep = {}
    /\ evals = [t \in Tids |-> 0]
    /\ dispatched = << >>
    /\ adder = [pc |-> "idle", item |-> NoTask]
    /\ nextTid = 1
    /\ handler = HandlerIdle
    /\ handled = 0
    /\ sandboxData = [s \in Sandboxes |-> EmptyMap]
    /\ netLog = << >>
    /\ crashed = FALSE

\* the engine object of a container of sandbox s that was created and started
StartedObject(s) ==
    LET c == CHOOSE n \in NewContainers :
                 /\ n.Sandbox = s /\ n.Privileged
                 /\ n.Config = EmptyMap /\ n.Disks = << >>
        ct == ContainerPut(c, Running)
    IN [ct EXCEPT !.Config = Put(Delete(@, cfgState), cfgStartedAt, FormatInt(Now))]

\* the capacity of cntMonitorChan is any: the channel is made elsewhere
SchedInit ==
    /\ engine = [id \in EngineIDs |->
                    IF id = RawID THEN RawObject ELSE StartedObject(id[2])]
    /\ fg = FgIdle
    /\ last = [op |-> Nil, id |-> NoID, err |-> Nil, calls |-> {}]
    /\ recon = [r \in Recons |-> ReconIdle]
    /\ started = {}
    /\ CodecIdle
    /\ chan = << >>
    /\ chanCap \in 0..MaxCap
    /\ mon = [pc |-> "select", item |-> NoTask]
    /\ now = 0
    /\ sweep = {}
    /\ evals = [t \in Tids |-> 0]
    /\ dispatched = << >>
    /\ adder = [pc |-> "idle", item |-> NoTask]
    /\ nextTid = 1
    /\ handler = HandlerIdle
    /\ handled = 0
    /\ sandboxData = [s \in Sandboxes |-> EmptyMap]
    /\ netLog = << >>
    /\ crashed = FALSE

NextSched ==
    \/ \E task \in {"volumes", "other"}, interval \in {0, MaxInterval}, once \in BOOLEAN :
          AddMonitorTask(<<"a", "sbCNI">>, task, interval, once)
    \/ AddMonitorTaskSend
    \/ MonitorTick
    \/ MonitorReceive
    \/ MonitorEvaluate
    \/ MonitorRequeue
    \/ ClockTick
    \/ \E n \in Notifications : LifecycleEvent(n)
    \/ \E engineOK \in BOOLEAN : HandlerLoad(engineOK)
    \/ HandlerEnqueue
    \/ \E result \in AttachResults \cup {AttachFailed} : HandlerNetwork(result)
    \/ \E engineOK \in BOOLEAN : HandlerSave(engineOK)

SpecSched == SchedInit /\ [][NextSched]_vars

----------------------------------------------------------------------------
(* The pure functions, applied to inputs drawn in the initial state.       *)

\* the values a state marker is found with
MarkerValues == {ContainerStateCreated, ContainerStateExited, ""}

\* the names of environment variables: the strings over EnvChars of length
\* 1..MaxNameLen, none with a "."
EnvChars == {"t", "p"}
EnvNames == UNION {[1..n -> EnvChars] : n \in 1..MaxNameLen}
EnvValues == {"1", "2"}

\* the environment mappings M of at most MaxEnvVars variables
EnvMaps ==
    UNION {[D -> EnvValues] : D \in {X \in SUBSET EnvNames : Cardinality(X) <= MaxEnvVars}}

\* the config of an engine object with this state marker
MarkerConfig(has, value) == IF has THEN [k \in {cfgState} |-> value] ELSE EmptyMap

DeriveInit ==
    /\ EngineInit
    /\ dsIn \in [statusCode : StatusCodes, has : BOOLEAN, value : MarkerValues]
    /\ dsOut = Nil
    /\ envIn = EmptyMap
    /\ envCfg = EmptyMap
    /\ envOut = [done |-> FALSE, vars |-> EmptyMap]
    /\ SchedIdle

\* toContainer derives the state of the engine object
DeriveState ==
    /\ dsOut = Nil
    /\ dsOut' = deriveState(dsIn.statusCode, MarkerConfig(dsIn.has, dsIn.value))
    /\ UNCHANGED <<dsIn, envIn, envCfg, envOut, engineVars, schedVars>>

NextDerive == DeriveState

SpecDerive == DeriveInit /\ [][NextDerive]_vars

EnvInit ==
    /\ EngineInit
    /\ dsIn = [statusCode |-> 0, has |-> FALSE, value |-> ""]
    /\ dsOut = Nil
    /\ envIn \in EnvMaps
    /\ envCfg = EmptyMap
    /\ envOut = [done |-> FALSE, vars |-> EmptyMap]
    /\ SchedIdle

\* makeContainerConfig writes the environment of the container
EncodeEnvironment ==
    /\ envCfg = EmptyMap
    /\ envIn # EmptyMap
    /\ envCfg' = EncodeEnv(envIn)
    /\ UNCHANGED <<dsIn, dsOut, envIn, envOut, engineVars, schedVars>>

\* toContainer reads it back with extractEnvVars
DecodeEnvironment ==
    /\ envCfg # EmptyMap
    /\ ~envOut.done
    /\ \E f \in extractEnvVars(envCfg) : envOut' = [done |-> TRUE, vars |-> f]
    /\ UNCHANGED <<dsIn, dsOut, envIn, envCfg, engineVars, schedVars>>

NextEnv == EncodeEnvironment \/ DecodeEnvironment

SpecEnv == EnvInit /\ [][NextEnv]_vars

----------------------------------------------------------------------------
(* Claims about the container lifecycle and the volume reconciler (Spec).  *)

\* C1: once StartContainer has succeeded for a container, no later operation
\* writes the state marker again: the stored config of a started container
\* never has the "created" marker, so it is never derived as Created.
C1_MarkerNeverRewritten ==
    \A id \in started :
        id \in DOMAIN engine => cfgState \notin DOMAIN engine[id].Config

\* C2: an iteration of remountMissingVolumes whose probe confirms every
\* expected disk ends the run: the goroutine never goes on to the sleep or
\* to an update after such a probe, whatever earlier iterations found.
C2_AllConfirmedEndsRun ==
    \A r \in Recons :
        recon[r].pc \in {"sleep", "update1", "update2"}
            => recon[r].confirmed # Range(recon[r].allDisks)

----------------------------------------------------------------------------
(* Claims about saving and reading containers (SpecSave).                  *)

\* the keys the config store is documented to reserve
DocReserved(k) ==
    \/ k \in {cfgSchema, cfgIsCRI, cfgSecurityPrivileged, cfgState, cfgMetaName,
              cfgMetaAttempt, cfgCreatedAt, cfgStartedAt, cfgCloudInitUserData,
              cfgCloudInitMetaData, cfgCloudInitNetworkConfig, cfgLogPath,
              cfgVolatileBaseImage, cfgAutoStartOnBoot}
    \/ \E p \in {cfgLabels, cfgAnnotations, cfgEnvironmentPrefix, volatile} :
          HasPrefix(k, p \o Dot)

\* C7: a passthrough entry of the caller under a reserved key or prefix is
\* dropped when the container is saved: no reserved key of a stored config
\* holds the caller's passthrough value.
C7_ReservedPassthroughDropped ==
    \A id \in DOMAIN engine :
        \A k \in DOMAIN engine[id].Config :
            DocReserved(k) => engine[id].Config[k] # PassVal

\* C9: GetContainer of an engine object that exists and has no managed-marker
\* returns ErrorNotFound (the engine itself answering the read).
C9_UnmanagedIsNotFound ==
    (/\ last.op = "get"
     /\ last.id \in DOMAIN engine
     /\ cfgIsCRI \notin DOMAIN engine[last.id].Config
     /\ last.err # "engine")
        => last.err = ErrorNotFound

\* C10: no container is stored unprivileged in a sandbox of the host network.
C10_NoUnprivilegedHostNetwork ==
    \A id \in DOMAIN engine \cap ManagedIDs :
        ~(/\ engine[id].Config[cfgSecurityPrivileged] = FormatBool(FALSE)
          /\ SandboxMode(engine[id].Profiles[1]) = NetworkHost)

----------------------------------------------------------------------------
(* Claims about the pure functions (SpecDerive, SpecEnv).                  *)

\* C6: the derived state is Running for status Running; Created for status
\* Stopped, Aborting or Stopping with the marker present and "created";
\* Exited for these three statuses otherwise; Unknown for every other
\* status; so nothing else is derived as Created.
C6_DerivedState ==
    dsOut # Nil =>
        LET halted == dsIn.statusCode \in {Stopped, Aborting, Stopping}
            marked == dsIn.has /\ dsIn.value = "created"
        IN /\ (dsIn.statusCode = Running) => dsOut = "running"
           /\ (halted /\ marked) => dsOut = "created"
           /\ (halted /\ ~marked) => dsOut = "exited"
           /\ (dsIn.statusCode # Running /\ ~halted) => dsOut = "unknown"
           /\ (dsOut = "created") => (halted /\ marked)

\* C6 witness: an aborting container with the marker is derived as Created
C6_Witness == dsIn.statusCode = Aborting /\ dsIn.has /\ dsOut = "created"

\* C8: decoding the encoded environment returns the environment mapping
\* that was encoded, every variable name unchanged.
C8_EnvRoundTrip == envOut.done => envOut.vars = envIn

\* C13: a failed engine call never ends the loop of remountMissingVolumes: a
\* goroutine that has returned did so because the reloaded container's state
\* was Exited or Unknown, or because every expected disk was confirmed.
C13_FailedCallNeverEndsLoop ==
    \A r \in Recons : recon[r].pc = "done" => recon[r].exit \in {"stale", "success"}

\* C14: remountMissingVolumes takes its success exit only in an iteration
\* whose own probe confirmed every expected disk, whatever earlier iterations
\* found.
C14_SuccessOnlyWhenAllConfirmed ==
    \A r \in Recons :
        recon[r].exit = "success" => recon[r].confirmed = Range(recon[r].allDisks)

\* C15: an iteration of remountMissingVolumes that finds a disk missing goes
\* from the probe to an update whose disks are exactly those the probe of this
\* iteration confirmed, each once, then to the update with all expected
\* disks, then to the sleep, and from the sleep to the next reload.
C15_TwoUpdatesThenSleep ==
    [][\A r \in Recons :
          /\ (recon[r].pc = "update1" /\ recon'[r].pc = "update2")
                => recon'[r].cntInfo.Disks = SetToSeq(recon[r].confirmed)
          /\ (recon[r].pc = "update2" /\ recon'[r].pc # "update2")
                => recon'[r].pc = "sleep"
          /\ (recon[r].pc = "sleep" /\ recon'[r].pc # "sleep")
                => recon'[r].pc = "reload"]_vars

\* C11: CreateContainer with a nil sandbox, or with a sandbox in host network
\* mode and privileged false, returns a validation error and makes no engine
\* call: no image lookup, no create, no update, and the engine is as before.
C11_InvalidCreateMakesNoCall ==
    [][\A c \in NewContainers, image \in ImageOutcomes, engineOK \in BOOLEAN :
          (/\ (c.Sandbox = Nil \/ (SandboxMode(c.Sandbox) = NetworkHost /\ ~c.Privileged))
           /\ CreateContainer(c, image, engineOK))
          => (last'.err = "validation" /\ last'.calls = {} /\ engine' = engine)]_vars

\* a rejected create of C11 has returned, with containers in the engine
C11_Witness ==
    /\ last.op = "create" /\ last.err = "validation" /\ last.calls = {}
    /\ DOMAIN engine \cap ManagedIDs # {}

----------------------------------------------------------------------------
(* Claims about the monitor and the event handler (SpecSched).             *)

\* C3: a sweep of containerMonitor evaluates only the tasks that were in the
\* queue when the sweep started (a task requeued or enqueued during the sweep
\* waits for the next tick), and none of them twice.
C3_SweepEvaluatesStartTasksOnce ==
    \A t \in Tids : evals[t] <= 1 /\ (evals[t] = 1 => t \in sweep)

\* C4: whatever fails in lifecycleEventHandler, the handler returns normally:
\* it never crashes, so the notifications after a failing one are processed.
C4_HandlerNeverCrashes == handler.pc # "panic"

\* C5: for a sandbox in CNI mode the first container-started notification
\* calls Attach and its result is persisted under "result"; every later one
\* calls Reattach with exactly that result.
C5_AttachOnFirstStartOnly ==
    /\ \A j \in 1..Len(netLog) :
          LET prior == {i \in 1..(j - 1) : netLog[i].sandbox = netLog[j].sandbox}
              first == CHOOSE i \in prior : \A k \in prior : i <= k
          IN IF prior = {}
             THEN netLog[j].op = "Attach"
             ELSE /\ netLog[j].op = "Reattach"
                  /\ netLog[j].result = netLog[first].result
    /\ handler.pc = "idle" =>
          \A j \in 1..Len(netLog) :
             /\ "result" \in DOMAIN sandboxData[netLog[j].sandbox]
             /\ netLog[j].op = "Attach" =>
                   sandboxData[netLog[j].sandbox]["result"] = netLog[j].result

\* C12: a notification that is not a lifecycle "container-started" one makes
\* the handler return with no collaborator call (nothing is queued, attached
\* or saved), and for each one that is, the handler enqueues exactly one
\* one-shot "volumes" task for the container named in the event source.
C12_OneTaskForTheSource ==
    [][/\ (handler.pc = "idle" /\ handled' = handled + 1)
            => UNCHANGED <<chan, mon, netLog, sandboxData>>
       /\ (handler.pc = "enqueue" /\ handler'.pc # "enqueue")
            => LET queued == {chan'[i] : i \in 1..Len(chan')} \cup {mon'.item}
                   sent == {t \in queued : t.tid = MaxTasks + handled + 1}
               IN /\ Cardinality(sent) = 1
                  /\ \A t \in sent :
                        /\ t.task = "volumes" /\ t.once /\ t.intervalSec = 0
                        /\ t.container = handler.id]_vars

\* C16: a task whose name is not a defined task name is dropped when it is
\* evaluated, one-shot or recurring: once evaluated it is not in the queue
\* and it is not evaluated again.
C16_UnknownTaskDropped ==
    /\ \A i \in 1..Len(chan) :
          chan[i].task # "volumes" => evals[chan[i].tid] = 0
    /\ mon.item.task \notin {"volumes", ""} => evals[mon.item.tid] <= 1

\* C17: the dispatcher is never blocked forever, whatever the capacity of the
\* channel: it is never at its requeue send with the channel full, where only
\* a receive could free it and it is the only receiver.
C17_DispatcherNeverBlocked == ~(mon.pc = "requeue" /\ Len(chan) >= chanCap)

\* the one-shot "volumes" tasks waiting in the channel
QueuedOneShots == {i \in 1..Len(chan) : chan[i].once /\ chan[i].task = "volumes"}

\* C18, the part about a task that is evaluated: a one-shot "volumes" task is
\* started at its first evaluation, is not in the queue afterwards and is
\* not evaluated or started again.
C18_StartedAtMostOnce ==
    /\ \A i \in QueuedOneShots :
          /\ evals[chan[i].tid] = 0
          /\ \A j \in 1..Len(dispatched) : dispatched[j].tid # chan[i].tid
    /\ \A j, k \in 1..Len(dispatched) :
          (dispatched[j].once /\ dispatched[j].tid = dispatched[k].tid) => j = k
    /\ \A t \in (MaxTasks + 1)..(MaxTasks + MaxEvents) :
          /\ evals[t] <= 1
          /\ evals[t] = Cardinality({j \in 1..Len(dispatched) : dispatched[j].tid = t})

\* C18: every enqueued one-shot "volumes" task has its action started exactly
\* once. So it is started at most once, and it is never left in the channel
\* of a dispatcher that is blocked at its requeue send and will not receive
\* again.
C18_OneShotStartedOnce ==
    /\ C18_StartedAtMostOnce
    /\ ~(QueuedOneShots # {} /\ mon.pc = "requeue" /\ Len(chan) >= chanCap)

\* the tasks in the channel or in the hands of the dispatcher
Queued == {chan[i] : i \in 1..Len(chan)} \cup {mon.item}

\* the positions in dispatched of the starts of task t
Starts(t) == {j \in 1..Len(dispatched) : dispatched[j].tid = t}

\* C19: an evaluation of a recurring "volumes" task starts the action if and
\* only if now - lastCheck >= interval, and then lastCheck is now; a task that
\* is not due is requeued as it was; and two starts of one recurring task
\* are at least its interval apart.
C19_RecurringStartsWhenDue ==
    [][/\ (mon.pc = "eval" /\ mon'.pc = "requeue" /\ mon.item.task = "volumes")
            => IF now - mon.item.lastCheck >= mon.item.intervalSec
               THEN /\ dispatched' = Append(dispatched, [tid |-> mon.item.tid, at |-> now,
                                                         once |-> FALSE])
                    /\ mon'.item = [mon.item EXCEPT !.lastCheck = now]
               ELSE /\ dispatched' = dispatched
                    /\ mon'.item = mon.item
       /\ \A t \in Queued' :
             \A j, k \in {x \in 1..Len(dispatched') : dispatched'[x].tid = t.tid} :
                j < k => dispatched'[k].at - dispatched'[j].at >= t.intervalSec]_vars

\* a recurring task with a positive interval was evaluated before it was due
\* again, and has been started twice
C19_Witness ==
    \E t \in Queued :
        /\ ~t.once /\ t.task = "volumes" /\ t.intervalSec > 0
        /\ Cardinality(Starts(t.tid)) = 2
        /\ evals[t.tid] = 3

\* C20: Reattach is only called with a result that an earlier Attach of the
\* same sandbox returned with success; a failed Attach records nothing, so
\* the next start does not Reattach with an empty result.
C20_ReattachOnlyWithAttachResult ==
    \A j \in 1..Len(netLog) :
        netLog[j].op = "Reattach" =>
            /\ netLog[j].result # AttachFailed
            /\ \E i \in 1..(j - 1) :
                  /\ netLog[i].op = "Attach"
                  /\ netLog[i].sandbox = netLog[j].sandbox
                  /\ netLog[i].result = netLog[j].result

----------------------------------------------------------------------------
(* The specifications.                                                     *)

Init == EngineInit /\ CodecIdle /\ SchedIdle

Spec == Init /\ [][Next]_vars

SpecSave == Init /\ [][NextSave]_vars

\* containers are created and deleted
NextCreate ==
    \/ \E c \in NewContainers, image \in ImageOutcomes, engineOK \in BOOLEAN :
          CreateContainer(c, image, engineOK)
    \/ \E id \in ManagedIDs : DeleteContainer(id)

SpecCreate == Init /\ [][NextCreate]_vars

====
